---- MODULE Spec2Model ----
(***************************************************************************)
(* The kontrol Postgres storage of kite (src/logger.go, package kontrol):  *)
(* the "kite" table, the registration primitives Add, Upsert, Update and   *)
(* Delete, the expiry sweep CleanExpiredRows, its goroutine RunCleaner and *)
(* the lookup Get; and of package kite the SIGUSR2 handlers that toggle    *)
(* the log level of a kite (SetupSignalHandler).                           *)
(*                                                                         *)
(* The store is PostgreSQL in its default READ COMMITTED isolation: a      *)
(* statement sees committed rows only, what a transaction writes shows at  *)
(* its commit, and now() is the start time of the current transaction.     *)
(* A statement that meets a row which an open transaction has written      *)
(* waits for that transaction to end and then acts on the committed row,   *)
(* so a write and the commit that follows it at once in the code are one   *)
(* step here.  Upsert is split where other callers can change what it      *)
(* meets: after Begin, and between its UPDATE and its INSERT.              *)
(***************************************************************************)
EXTENDS Integers, Sequences, FiniteSets, TLC

VARIABLES
    table,  \* the committed rows of table "kite" (a set of rows)
    now,    \* the store's clock, in seconds
    pc,     \* pc[p]: where caller p stands in Upsert
    tx,     \* tx[p]: the transaction caller p has open in Upsert
    ret,    \* what the call that returned last gave back to its caller
    cleaner,    \* the goroutine of RunCleaner: its place, its ticker, its log
    debugMode,  \* the package variable debugMode of package kite
    logLevel,   \* logLevel[k]: the level of the logger of kite k
    sigc,       \* sigc[k]: the signals waiting in the channel of kite k's handler
    handler,    \* handler[k]: where the signal handler of kite k stands
    signals     \* the number of SIGUSR2 signals sent to the process

\* the variables of the signal handlers of package kite
logVars == <<debugMode, logLevel, sigc, handler, signals>>

vars == <<table, now, pc, tx, ret, cleaner, logVars>>

(***************************************************************************)
(* Bounds of the model.                                                    *)
(***************************************************************************)
MaxTime == 21
TickStep == 21

\* expireInterval of NewPostgres, in seconds
ExpireSecs == 20

\* cleanInterval of NewPostgres, in seconds
CleanInterval == 30

\* the clock of the sweeper's ticker stops at CleanerMaxTime
CleanerMaxTime == 60

\* the clock of the sweeps whose rows are a second more or less than
\* ExpireSecs old: it moves by SweepStep up to SweepMaxTime
SweepStep == 1
SweepMaxTime == 21

Procs == {"p1", "p2"}

(***************************************************************************)
(* Inputs: kites (protocol.Kite), register URLs.                           *)
(***************************************************************************)
KiteA == [username |-> "alice", environment |-> "prod", name |-> "math",
          version |-> "1.0.0", region |-> "eu", hostname |-> "h1", id |-> "id1"]

\* the same id registered again under another version and host
KiteA2 == [username |-> "alice", environment |-> "prod", name |-> "math",
           version |-> "1.2.0", region |-> "eu", hostname |-> "h2", id |-> "id1"]

KiteB == [username |-> "alice", environment |-> "prod", name |-> "math",
          version |-> "2.0.0", region |-> "us", hostname |-> "h1", id |-> "id2"]

\* a third kite of the same name
KiteC == [username |-> "alice", environment |-> "prod", name |-> "math",
          version |-> "1.2.0", region |-> "eu", hostname |-> "h2", id |-> "id3"]

\* a kite of another user
KiteD == [username |-> "bob", environment |-> "prod", name |-> "math",
          version |-> "1.2.0", region |-> "eu", hostname |-> "h2", id |-> "id4"]

\* the kites of concurrent callers
Kites == {KiteA, KiteB}

\* the kites of the calls made one after the other
SeqKites == {KiteA, KiteA2, KiteB}

\* the kites of a registry that is looked up
GetKites == {KiteA, KiteB, KiteC, KiteD}

NoKite == [username |-> "", environment |-> "", name |-> "",
           version |-> "", region |-> "", hostname |-> "", id |-> ""]

ValidURLs == {"http://a:1/kite", "http://b:2/kite"}

\* strings url.Parse rejects (an invalid % escape)
MalformedURLs == {"%zz"}

URLs == ValidURLs \cup MalformedURLs

(***************************************************************************)
(* Errors.                                                                 *)
(***************************************************************************)
NoErr == "nil"
ParseError == "url parse error"
BuildError == "sql build error"
StoreError == "store error"
UniqueViolation == "duplicate key value violates unique constraint"
EmptyQuery == "all query fields are empty"
ConstraintError == "malformed constraint"

\* a register call that does not validate the URL
ParseOK_Unchecked(u) == TRUE

\* url.Parse(value.URL): does the URL parse?
ParseOK(u) == u \notin MalformedURLs

(***************************************************************************)
(* The statements, as functions of the committed table T.                  *)
(***************************************************************************)
\* the row INSERT writes: created_at and updated_at take their DEFAULT now()
Row(k, u, t) ==
    [username |-> k.username, environment |-> k.environment,
     kitename |-> k.name, version |-> k.version, region |-> k.region,
     hostname |-> k.hostname, id |-> k.id, url |-> u,
     created_at |-> t, updated_at |-> t]

\* a table whose id is no key
PKConflict_NoKey(T, id) == FALSE

\* id uuid PRIMARY KEY: is an INSERT of id rejected?
PKConflict(T, id) == \E r \in T : r.id = id

\* INSERT INTO kite (username, ..., id, url) VALUES (...)
InsertRow(T, k, u, t) == T \cup {Row(k, u, t)}

\* an UPDATE that writes a row when it finds none
UpdateRows_OrInsert(T, id, u, t) ==
    IF \E r \in T : r.id = id
    THEN {IF r.id = id THEN [r EXCEPT !.url = u, !.updated_at = t] ELSE r : r \in T}
    ELSE T \cup {[username |-> "", environment |-> "", kitename |-> "",
                  version |-> "", region |-> "", hostname |-> "", id |-> id,
                  url |-> u, created_at |-> t, updated_at |-> t]}

\* an UPDATE that also stamps created_at
UpdateRows_Recreates(T, id, u, t) ==
    {IF r.id = id THEN [r EXCEPT !.url = u, !.updated_at = t, !.created_at = t]
     ELSE r : r \in T}

\* UPDATE kite SET url = $1, updated_at = now() WHERE id = $2
UpdateRows(T, id, u, t) ==
    {IF r.id = id THEN [r EXCEPT !.url = u, !.updated_at = t] ELSE r : r \in T}

\* res.RowsAffected() of that UPDATE
RowsAffected(T, id) == Cardinality({r \in T : r.id = id})

\* a DELETE that lost its WHERE clause
DeleteRows_All(T, id) == {}

\* DELETE FROM kite WHERE id = $1
DeleteRows(T, id) == {r \in T : r.id # id}

\* a DELETE that finds no row old enough
ExpiredRows_None(T, expire, t) == {}

\* a DELETE that takes the rows of exactly the expiry age too
ExpiredRows_Inclusive(T, expire, t) == {r \in T : r.updated_at <= t - expire}

\* the rows of DELETE FROM kite WHERE updated_at < now() - 1 second * $1
ExpiredRows(T, expire, t) == {r \in T : r.updated_at < t - expire}

(***************************************************************************)
(* Package kite: the log levels and the kites whose signal handler is set. *)
(***************************************************************************)
\* the kites of the process that have called SetupSignalHandler
LoggedKites == {"kite1", "kite2"}

\* getLogLevel(): the level of KITE_LOG_LEVEL, INFO when it is not set
getLogLevel == "INFO"

DEBUG == "DEBUG"

\* SIGUSR2 is sent at most MaxSignals times
MaxSignals == 3

\* make(chan os.Signal, 1): the signals a handler's channel holds
ChanCap == 1

NoTx == [kite |-> NoKite, url |-> "", start |-> 0, sent |-> 0]

\* a call returns to its caller: the operation and the id it was called for,
\* the step that failed and the
\* error it failed with, the error returned, the number of requests sent to
\* the store, the number of rows reported, the kites returned
Return(op, id, step, cause, err, sent, count, rows) ==
    ret' = [op |-> op, id |-> id, step |-> step, cause |-> cause, err |-> err,
            sent |-> sent, count |-> count, rows |-> rows, query |-> NoKite]

\* Get returns to its caller; the query it was called with is kept
ReturnGet(q, step, cause, err, sent, count, rows) ==
    ret' = [op |-> "Get", id |-> q.id, step |-> step, cause |-> cause, err |-> err,
            sent |-> sent, count |-> count, rows |-> rows, query |-> q]

Init ==
    /\ table = {}
    /\ now = 0
    /\ pc = [p \in Procs |-> "idle"]
    /\ tx = [p \in Procs |-> NoTx]
    /\ ret = [op |-> "none", id |-> "", step |-> "none", cause |-> NoErr, err |-> NoErr,
              sent |-> 0, count |-> 0, rows |-> <<>>, query |-> NoKite]
    /\ cleaner = [pc |-> "first", tick |-> FALSE, logged |-> "none", warned |-> FALSE]
    /\ debugMode = FALSE
    /\ logLevel \in [LoggedKites -> {getLogLevel}]
    /\ sigc = [k \in LoggedKites |-> 0]
    /\ handler = [k \in LoggedKites |-> "range"]
    /\ signals = 0

\* time passes
Tick ==
    /\ now + TickStep <= MaxTime
    /\ now' = now + TickStep
    /\ UNCHANGED <<table, pc, tx, ret, cleaner, logVars>>

\* d seconds pass on a clock that stops at max
Pass(d, max) ==
    /\ now + d <= max
    /\ now' = now + d
    /\ UNCHANGED <<table, pc, tx, ret, cleaner, logVars>>

(***************************************************************************)
(* Add: url.Parse, insertQuery, one INSERT outside any transaction.        *)
(***************************************************************************)
Add(k, u) ==
    /\ UNCHANGED <<now, pc, tx, cleaner, logVars>>
    /\ IF ~ParseOK(u)
       THEN /\ Return("Add", k.id, "parse", ParseError, ParseError, 0, 0, <<>>)
            /\ UNCHANGED table
       ELSE \/ /\ Return("Add", k.id, "build", BuildError, BuildError, 0, 0, <<>>)
               /\ UNCHANGED table
            \/ /\ Return("Add", k.id, "insert", StoreError, StoreError, 1, 0, <<>>)
               /\ UNCHANGED table
            \/ IF PKConflict(table, k.id)
               THEN /\ Return("Add", k.id, "insert", UniqueViolation,
                              UniqueViolation, 1, 0, <<>>)
                    /\ UNCHANGED table
               ELSE /\ Return("Add", k.id, "none", NoErr, NoErr, 1, 0, <<>>)
                    /\ table' = InsertRow(table, k, u, now)

(***************************************************************************)
(* Update: url.Parse, one UPDATE by id outside any transaction.            *)
(***************************************************************************)
Update(k, u) ==
    /\ UNCHANGED <<now, pc, tx, cleaner, logVars>>
    /\ IF ~ParseOK(u)
       THEN /\ Return("Update", k.id, "parse", ParseError, ParseError, 0, 0, <<>>)
            /\ UNCHANGED table
       ELSE \/ /\ Return("Update", k.id, "update", StoreError, StoreError, 1, 0, <<>>)
               /\ UNCHANGED table
            \/ /\ Return("Update", k.id, "none", NoErr, NoErr, 1, 0, <<>>)
               /\ table' = UpdateRows(table, k.id, u, now)

(***************************************************************************)
(* Delete: one DELETE by id.                                               *)
(***************************************************************************)
Delete(k) ==
    /\ UNCHANGED <<now, pc, tx, cleaner, logVars>>
    /\ \/ /\ Return("Delete", k.id, "delete", StoreError, StoreError, 1, 0, <<>>)
          /\ UNCHANGED table
       \/ /\ Return("Delete", k.id, "none", NoErr, NoErr, 1, 0, <<>>)
          /\ table' = DeleteRows(table, k.id)

(***************************************************************************)
(* CleanExpiredRows: one DELETE of the rows older than expire.             *)
(***************************************************************************)
CleanExpiredRows(expire) ==
    /\ UNCHANGED <<now, pc, tx, cleaner, logVars>>
    /\ \/ /\ Return("CleanExpiredRows", "", "delete", StoreError, StoreError, 1, 0, <<>>)
          /\ UNCHANGED table
       \/ /\ Return("CleanExpiredRows", "", "none", NoErr, NoErr, 1,
                    Cardinality(ExpiredRows(table, expire, now)), <<>>)
          /\ table' = table \ ExpiredRows(table, expire, now)

(***************************************************************************)
(* RunCleaner: cleanFunc once, then cleanFunc for every tick received from *)
(* time.Tick(interval).  cleaner.pc is "first" before the first sweep and  *)
(* "loop" in the range over the ticker; cleaner.tick is the one tick the   *)
(* ticker's channel holds; cleaner.logged is what the last cleanFunc       *)
(* logged and cleaner.warned whether a warning was ever logged.            *)
(***************************************************************************)
\* what cleanFunc logs
Logged(err, affectedRows) ==
    IF err # NoErr THEN "warning" ELSE IF affectedRows # 0 THEN "info" ELSE "none"

\* a sweeper that gives up when a sweep fails
AfterSweep_StopsOnError(err) == IF err # NoErr THEN "stopped" ELSE "loop"

\* where RunCleaner stands after a cleanFunc: cleanFunc returns nothing and
\* the range over the ticker goes on
AfterSweep(err) == "loop"

\* cleanFunc: one CleanExpiredRows and its log line
cleanFunc(expire) ==
    \/ /\ Return("CleanExpiredRows", "", "delete", StoreError, StoreError, 1, 0, <<>>)
       /\ UNCHANGED table
       /\ cleaner' = [pc |-> AfterSweep(StoreError), tick |-> FALSE,
                      logged |-> Logged(StoreError, 0), warned |-> TRUE]
    \/ LET affectedRows == Cardinality(ExpiredRows(table, expire, now))
       IN  /\ Return("CleanExpiredRows", "", "none", NoErr, NoErr, 1, affectedRows, <<>>)
           /\ table' = table \ ExpiredRows(table, expire, now)
           /\ cleaner' = [pc |-> AfterSweep(NoErr), tick |-> FALSE,
                          logged |-> Logged(NoErr, affectedRows),
                          warned |-> cleaner.warned]

\* cleanFunc() // run for the first time
RunCleanerFirst ==
    /\ cleaner.pc = "first"
    /\ cleanFunc(ExpireSecs)
    /\ UNCHANGED <<now, pc, tx, logVars>>

\* for _ = range time.Tick(interval) { cleanFunc() }: one tick is received
RunCleanerTick ==
    /\ cleaner.pc = "loop"
    /\ cleaner.tick
    /\ cleanFunc(ExpireSecs)
    /\ UNCHANGED <<now, pc, tx, logVars>>

\* calls that write rows are made while the clock runs
ClockRuns == now + CleanInterval <= CleanerMaxTime

\* an interval passes: the ticker, once RunCleaner has made it, sends a tick
\* unless one is still waiting in its channel.  At CleanerMaxTime the clock
\* stands and the ticker goes on: no row is written then, so every row is
\* already older than an interval.
TickerFires ==
    /\ now' = IF ClockRuns THEN now + CleanInterval ELSE now
    /\ cleaner' = [cleaner EXCEPT !.tick = @ \/ cleaner.pc = "loop"]
    /\ UNCHANGED <<table, pc, tx, ret, logVars>>

(***************************************************************************)
(* SetupSignalHandler: every kite that called it has a channel notified of *)
(* SIGUSR2 and a goroutine that ranges over the channel.  The goroutines   *)
(* read and write the package variable debugMode without synchronization,  *)
(* so the read at the if and the write after SetLogLevel are two steps.    *)
(***************************************************************************)
\* the process receives SIGUSR2: package signal sends it to every notified
\* channel without blocking, and drops it for a channel that is full
Signal ==
    /\ signals < MaxSignals
    /\ signals' = signals + 1
    /\ sigc' = [k \in LoggedKites |-> IF sigc[k] < ChanCap THEN sigc[k] + 1 ELSE sigc[k]]
    /\ UNCHANGED <<debugMode, logLevel, handler>>
    /\ UNCHANGED <<table, now, pc, tx, ret, cleaner>>

\* for s := range c, and the test if debugMode
HandlerReceive(k) ==
    /\ handler[k] = "range"
    /\ sigc[k] > 0
    /\ sigc' = [sigc EXCEPT ![k] = @ - 1]
    /\ handler' = [handler EXCEPT ![k] = IF debugMode THEN "disable" ELSE "enable"]
    /\ UNCHANGED <<debugMode, logLevel, signals>>
    /\ UNCHANGED <<table, now, pc, tx, ret, cleaner>>

\* the branch taken: k.SetLogLevel(getLogLevel()); debugMode = false, or
\* k.SetLogLevel(DEBUG); debugMode = true
HandlerSet(k) ==
    /\ handler[k] \in {"disable", "enable"}
    /\ logLevel' = [logLevel EXCEPT ![k] = IF handler[k] = "disable" THEN getLogLevel
                                           ELSE DEBUG]
    /\ debugMode' = (handler[k] = "enable")
    /\ handler' = [handler EXCEPT ![k] = "range"]
    /\ UNCHANGED <<sigc, signals>>
    /\ UNCHANGED <<table, now, pc, tx, ret, cleaner>>

(***************************************************************************)
(* Upsert: url.Parse, Begin, UPDATE by id, RowsAffected, and when no row   *)
(* was affected insertQuery and INSERT; the deferred function ends the     *)
(* transaction and overwrites the named result err.                        *)
(***************************************************************************)
\* a rollback that keeps what the transaction wrote
TxRollback_Keeps(T, W) == W

\* the table after tx.Rollback(): T the committed rows, W the rows as the
\* transaction has written them
TxRollback(T, W) == T

\* the table after a tx.Commit() that succeeds
TxCommit(T, W) == W

\* the deferred function: err = tx.Rollback() when err != nil, else
\* err = tx.Commit().  The result of Rollback or Commit is what Upsert returns.
Deferred(err, end) == end

\* a step of Upsert has failed with cause after sent requests: Upsert
\* returns, the deferred function rolls back, and Rollback itself succeeds or
\* fails
UpsertFail(p, step, cause, W, sent) ==
    /\ \E rb \in {NoErr, StoreError} :
          Return("Upsert", tx[p].kite.id, step, cause, Deferred(cause, rb), sent + 1, 0, <<>>)
    /\ table' = TxRollback(table, W)
    /\ pc' = [pc EXCEPT ![p] = "idle"]
    /\ tx' = [tx EXCEPT ![p] = NoTx]
    /\ UNCHANGED <<now, cleaner, logVars>>

\* Upsert returns nil: the deferred function commits, and Commit succeeds or
\* fails (and then rolls back)
UpsertCommit(p, W) ==
    /\ pc' = [pc EXCEPT ![p] = "idle"]
    /\ tx' = [tx EXCEPT ![p] = NoTx]
    /\ UNCHANGED <<now, cleaner, logVars>>
    /\ \/ /\ Return("Upsert", tx[p].kite.id, "commit", StoreError, Deferred(NoErr, StoreError),
                    tx[p].sent + 2, 0, <<>>)
          /\ table' = TxRollback(table, W)
       \/ /\ Return("Upsert", tx[p].kite.id, "none", NoErr, Deferred(NoErr, NoErr),
                    tx[p].sent + 2, 0, <<>>)
          /\ table' = TxCommit(table, W)

\* url.Parse and p.DB.Begin()
UpsertBegin(p, k, u) ==
    /\ pc[p] = "idle"
    /\ UNCHANGED <<table, now, cleaner, logVars>>
    /\ IF ~ParseOK(u)
       THEN /\ Return("Upsert", k.id, "parse", ParseError, ParseError, 0, 0, <<>>)
            /\ UNCHANGED <<pc, tx>>
       ELSE \/ /\ Return("Upsert", k.id, "begin", StoreError, StoreError, 1, 0, <<>>)
               /\ UNCHANGED <<pc, tx>>
            \/ /\ pc' = [pc EXCEPT ![p] = "begun"]
               /\ tx' = [tx EXCEPT ![p] = [kite |-> k, url |-> u,
                                            start |-> now, sent |-> 1]]
               /\ UNCHANGED ret

\* tx.Exec(UPDATE ...), res.RowsAffected(), and the return when a row was
\* affected
UpsertUpdate(p) ==
    /\ pc[p] = "begun"
    /\ LET id == tx[p].kite.id
           W == UpdateRows(table, id, tx[p].url, tx[p].start)
       IN  \/ UpsertFail(p, "update", StoreError, table, tx[p].sent + 1)
           \/ UpsertFail(p, "rowsAffected", StoreError, W, tx[p].sent + 1)
           \/ /\ RowsAffected(table, id) # 0
              /\ UpsertCommit(p, W)
           \/ /\ RowsAffected(table, id) = 0
              /\ pc' = [pc EXCEPT ![p] = "noRow"]
              /\ tx' = [tx EXCEPT ![p].sent = @ + 1]
              /\ UNCHANGED <<table, now, ret, cleaner, logVars>>

\* insertQuery, tx.Exec(insertSQL, args...) and the return
UpsertInsert(p) ==
    /\ pc[p] = "noRow"
    /\ LET k == tx[p].kite
       IN  \/ UpsertFail(p, "build", BuildError, table, tx[p].sent)
           \/ UpsertFail(p, "insert", StoreError, table, tx[p].sent + 1)
           \/ IF PKConflict(table, k.id)
              THEN UpsertFail(p, "insert", UniqueViolation, table, tx[p].sent + 1)
              ELSE UpsertCommit(p, InsertRow(table, k, tx[p].url, tx[p].start))

(***************************************************************************)
(* Get: selectQuery, the version constraint, one SELECT, Filter, Shuffle.  *)
(***************************************************************************)
\* the order of the fields of a query
keyOrder == <<"username", "environment", "name", "version", "region",
              "hostname", "id">>

\* query.Fields(): the value of a field of the query
Fields(q, key) == q[key]

\* the column of table kite that holds a field
Column(key) == IF key = "name" THEN "kitename" ELSE key

\* a selectQuery that builds a statement without conditions for an empty query
selectQuery_Unconditional(q) ==
    [err |-> NoErr,
     where |-> {<<Column(keyOrder[i]), Fields(q, keyOrder[i])>> :
                   i \in {j \in DOMAIN keyOrder : Fields(q, keyOrder[j]) # ""}}]

\* a selectQuery that stops at the first empty field
selectQuery_StopAtEmpty(q) ==
    LET andQuery == {<<Column(keyOrder[i]), Fields(q, keyOrder[i])>> :
                        i \in {j \in DOMAIN keyOrder :
                                  \A l \in 1..j : Fields(q, keyOrder[l]) # ""}}
    IN  IF andQuery = {}
        THEN [err |-> EmptyQuery, where |-> {}]
        ELSE [err |-> NoErr, where |-> andQuery]

\* selectQuery: the equality conditions of the non-empty fields, or the error
\* of a query without any
selectQuery(q) ==
    LET andQuery == {<<Column(keyOrder[i]), Fields(q, keyOrder[i])>> :
                        i \in {j \in DOMAIN keyOrder : Fields(q, keyOrder[j]) # ""}}
    IN  IF andQuery = {}
        THEN [err |-> EmptyQuery, where |-> {}]
        ELSE [err |-> NoErr, where |-> andQuery]

\* SELECT * FROM kite WHERE every condition holds
SelectRows(T, where) == {r \in T : \A c \in where : r[c[1]] = c[2]}

\* version.NewVersion: the numbers of a version string, <<>> when it is none
NewVersion(v) ==
    CASE v = "1.0.0" -> <<1, 0, 0>>
      [] v = "1.2.0" -> <<1, 2, 0>>
      [] v = "2.0.0" -> <<2, 0, 0>>
      [] OTHER -> <<>>

\* version.NewConstraint: the comparisons of a range, {} when it is malformed
NewConstraint(v) ==
    CASE v = ">= 1.0.0, < 2.0.0" ->
             {[op |-> ">=", v |-> <<1, 0, 0>>], [op |-> "<", v |-> <<2, 0, 0>>]}
      [] v = ">= 2.0.0" -> {[op |-> ">=", v |-> <<2, 0, 0>>]}
      [] OTHER -> {}

\* a < b for two versions of three numbers
VersionLess(a, b) ==
    \/ a[1] < b[1]
    \/ a[1] = b[1] /\ a[2] < b[2]
    \/ a[1] = b[1] /\ a[2] = b[2] /\ a[3] < b[3]

\* Constraints.Check: version a satisfies every comparison of c
Check(c, a) ==
    \A x \in c : IF x.op = ">=" THEN ~VersionLess(a, x.v) ELSE VersionLess(a, x.v)

\* strings.TrimRight(region + "/" + hostname + "/" + id, "/"), as the list of
\* its parts
KeyRest(region, hostname, id) ==
    IF id # "" THEN <<region, hostname, id>>
    ELSE IF hostname # "" THEN <<region, hostname>>
    ELSE IF region # "" THEN <<region>>
    ELSE <<>>

IsPrefix(a, b) == Len(a) <= Len(b) /\ SubSeq(b, 1, Len(a)) = a

\* the protocol.KiteWithToken scanned from a row
ToKite(r) ==
    [username |-> r.username, environment |-> r.environment, name |-> r.kitename,
     version |-> r.version, region |-> r.region, hostname |-> r.hostname,
     id |-> r.id, url |-> r.url]

\* Kites.Filter: the kites whose version satisfies the constraint and whose
\* key after the version starts with keyRest
Filter(K, c, keyRest) ==
    {k \in K : /\ Check(c, NewVersion(k.version))
               /\ IsPrefix(keyRest, KeyRest(k.region, k.hostname, k.id))}

\* Kites.Shuffle: the orders a shuffle of K can give
Shuffle(K) ==
    {s \in [1..Cardinality(K) -> K] : \A i, j \in DOMAIN s : s[i] = s[j] => i = j}

\* a rebuilt query that keeps every field of the query
NameQuery_Whole(q) == q

\* nameQuery: the query rebuilt for a version constraint, with the username,
\* environment and name of the query and nothing else
NameQuery(q) ==
    [NoKite EXCEPT !.username = q.username, !.environment = q.environment,
                   !.name = q.name]

\* a Get that does not filter
Selected_NoFilter(fetched, hasVersionConstraint, c, keyRest) ==
    {ToKite(r) : r \in fetched}

\* a Get that filters a single row too
Selected_AlwaysFilter(fetched, hasVersionConstraint, c, keyRest) ==
    LET kites == {ToKite(r) : r \in fetched}
    IN  IF hasVersionConstraint THEN Filter(kites, c, keyRest) ELSE kites

\* the kites Get returns from the rows fetched: one row goes back as it is,
\* more are filtered when a constraint is set, and shuffled
Selected(fetched, hasVersionConstraint, c, keyRest) ==
    LET kites == {ToKite(r) : r \in fetched}
    IN  IF Cardinality(kites) = 1 THEN kites
        ELSE IF hasVersionConstraint THEN Filter(kites, c, keyRest)
        ELSE kites

Get(q) ==
    /\ UNCHANGED <<table, now, pc, tx, cleaner, logVars>>
    /\ LET first == selectQuery(q)
           isRange == NewVersion(q.version) = <<>> /\ q.version # ""
           c == NewConstraint(q.version)
           nameQuery == NameQuery(q)
           sql == IF isRange THEN selectQuery(nameQuery) ELSE first
           keyRest == KeyRest(q.region, q.hostname, q.id)
           fetched == SelectRows(table, sql.where)
       IN  IF first.err # NoErr
           THEN ReturnGet(q, "selectQuery", first.err, first.err, 0, 0, <<>>)
           ELSE IF isRange /\ c = {}
           THEN ReturnGet(q, "constraint", ConstraintError, ConstraintError,
                       0, 0, <<>>)
           ELSE IF sql.err # NoErr
           THEN ReturnGet(q, "nameQuery", sql.err, sql.err, 0, 0, <<>>)
           ELSE \/ ReturnGet(q, "query", StoreError, StoreError, 1, 0, <<>>)
                \/ \E rows \in Shuffle(Selected(fetched, isRange, c, keyRest)) :
                      ReturnGet(q, "none", NoErr, NoErr, 1,
                             Cardinality(fetched), rows)

\* the queries of the model
QueryA == [NoKite EXCEPT !.username = "alice"]
QueryId == [NoKite EXCEPT !.id = "id2"]
QueryRange == [NoKite EXCEPT !.username = "alice", !.environment = "prod",
                             !.name = "math", !.version = ">= 1.0.0, < 2.0.0"]
QueryRangeOnly == [NoKite EXCEPT !.version = ">= 2.0.0", !.region = "us"]
QueryBadRange == [NoKite EXCEPT !.username = "alice", !.version = "latest"]
QueryExact == [NoKite EXCEPT !.username = "alice", !.version = "1.2.0"]
QueryRangeEu == [QueryRange EXCEPT !.region = "eu", !.hostname = "h2"]
QueryRangeHigh == [QueryRange EXCEPT !.version = ">= 2.0.0", !.region = "us"]

Queries == {NoKite, QueryA, QueryId, QueryRange, QueryRangeOnly, QueryBadRange,
            QueryExact, QueryRangeEu, QueryRangeHigh}

\* the calls of the registry with one Upsert in flight at a time
Next ==
    \/ Tick
    \/ \E k \in SeqKites, u \in URLs : Add(k, u)
    \/ \E k \in SeqKites, u \in URLs : Update(k, u)
    \/ \E k \in SeqKites : Delete(k)
    \/ CleanExpiredRows(ExpireSecs)
    \/ \E k \in SeqKites, u \in URLs : UpsertBegin("p1", k, u)
    \/ UpsertUpdate("p1")
    \/ UpsertInsert("p1")

Spec == Init /\ [][Next]_vars

\* concurrent Upserts: every caller of Procs may have an Upsert in flight
RaceNext ==
    \/ Tick
    \/ \E p \in Procs, k \in Kites, u \in URLs : UpsertBegin(p, k, u)
    \/ \E p \in Procs : UpsertUpdate(p)
    \/ \E p \in Procs : UpsertInsert(p)

RaceSpec == Init /\ [][RaceNext]_vars

\* lookups of a registry that kites are added to and deleted from
GetNext ==
    \/ \E k \in GetKites, u \in ValidURLs : Add(k, u)
    \/ \E k \in GetKites : Delete(k)
    \/ \E q \in Queries : Get(q)

GetSpec == Init /\ [][GetNext]_vars

\* the sweeper next to the callers that register and refresh kites
CleanerNext ==
    \/ TickerFires
    \/ RunCleanerFirst
    \/ RunCleanerTick
    \/ \E k \in Kites : ClockRuns /\ Add(k, "http://a:1/kite")
    \/ \E k \in Kites : ClockRuns /\ Update(k, "http://b:2/kite")
    \/ ClockRuns /\ UpsertBegin("p1", KiteA, "http://b:2/kite")
    \/ UpsertUpdate("p1")
    \/ UpsertInsert("p1")

\* the goroutine of RunCleaner is scheduled and the ticker keeps firing
CleanerSpec ==
    /\ Init /\ [][CleanerNext]_vars
    /\ WF_vars(TickerFires)
    /\ WF_vars(RunCleanerFirst)
    /\ WF_vars(RunCleanerTick)

\* a sweep of the loop that deletes without error
SweepSucceeds == RunCleanerTick /\ ret'.err = NoErr

\* the same, and the DELETE of the sweeper does not fail forever
LiveSpec ==
    /\ Init /\ [][CleanerNext]_vars
    /\ WF_vars(TickerFires)
    /\ WF_vars(RunCleanerFirst)
    /\ SF_vars(SweepSucceeds)

\* SIGUSR2 signals to a process whose kites have their handlers set
SignalNext ==
    \/ Signal
    \/ \E k \in LoggedKites : HandlerReceive(k)
    \/ \E k \in LoggedKites : HandlerSet(k)

SignalSpec == Init /\ [][SignalNext]_vars

\* refreshes of the row of id1 under another identity than the stored one
RefreshNext ==
    \/ Tick
    \/ \E k \in Kites, u \in ValidURLs : Add(k, u)
    \/ \E u \in ValidURLs : Update(KiteA2, u)
    \/ \E u \in ValidURLs : UpsertBegin("p1", KiteA2, u)
    \/ UpsertUpdate("p1")
    \/ UpsertInsert("p1")

RefreshSpec == Init /\ [][RefreshNext]_vars

\* sweeps of a registry whose rows age second by second
SweepNext ==
    \/ Pass(SweepStep, SweepMaxTime)
    \/ \E k \in Kites : Add(k, "http://a:1/kite")
    \/ CleanExpiredRows(ExpireSecs)

SweepSpec == Init /\ [][SweepNext]_vars

(***************************************************************************)
(* The claims.                                                             *)
(***************************************************************************)
RowsOf(T, id) == {r \in T : r.id = id}

\* caller p's Upsert returns in this step, its transaction having begun
UpsertReturns(p) == pc[p] \in {"begun", "noRow"} /\ pc'[p] = "idle"

\* C1: an Upsert whose UPDATE, RowsAffected, insertQuery or INSERT failed
\* returns a non-nil error.
C1_FailedUpsertReturnsError ==
    (ret.op = "Upsert" /\ ret.step \in {"update", "rowsAffected", "build", "insert"})
        => ret.err # NoErr

\* C2: when an Upsert that saw no row loses the INSERT to the primary key,
\* one row of the id is stored, the table is left alone (no retry) and the
\* loser returns an error.
C2_LoserReturnsError ==
    [][\A p \in Procs :
          (UpsertReturns(p) /\ ret'.cause = UniqueViolation)
              => /\ Cardinality(RowsOf(table', tx[p].kite.id)) = 1
                 /\ table' = table
                 /\ ret'.err # NoErr]_vars

\* C3: an Upsert in which a step fails leaves the table as it was.
C3_FailedUpsertLeavesTable ==
    [][\A p \in Procs :
          ((UpsertReturns(p) /\ ret'.step # "none")
             \/ (\E k \in Kites, u \in URLs : UpsertBegin(p, k, u)))
              => table' = table]_vars

\* C3 happens: an Upsert whose UPDATE had hit the row failed afterwards
C3_Witness ==
    /\ ret.op = "Upsert"
    /\ ret.step = "rowsAffected"
    /\ RowsOf(table, ret.id) # {}

\* C4: when an Upsert returns nil, one row of its id is stored and holds the
\* URL of that Upsert.
C4_UpsertStoresLatestURL ==
    [][\A p \in Procs :
          (UpsertReturns(p) /\ ret'.err = NoErr)
              => /\ Cardinality(RowsOf(table', tx[p].kite.id)) = 1
                 /\ \A r \in RowsOf(table', tx[p].kite.id) : r.url = tx[p].url]_vars

\* C5: the updated_at of a stored row never decreases.
C5_UpdatedAtMonotonic ==
    [][\A r \in table : \A r2 \in RowsOf(table', r.id) :
          r2.updated_at >= r.updated_at]_vars

\* C6: Add on an id that has a row fails and leaves the table as it was, with
\* one row of that id.
C6_AddIsInsertOnly ==
    [][\A k \in SeqKites, u \in URLs :
          (ret'.op = "Add" /\ ret'.id = k.id /\ RowsOf(table, k.id) # {} /\ Add(k, u))
              => /\ ret'.err # NoErr
                 /\ table' = table
                 /\ Cardinality(RowsOf(table', k.id)) = 1]_vars

\* C6 happens: an Add was rejected by the primary key of a stored row
C6_Witness ==
    /\ ret.op = "Add"
    /\ ret.cause = UniqueViolation
    /\ Cardinality(RowsOf(table, ret.id)) = 1

\* C7: Add, Upsert and Update with a URL that does not parse return an error,
\* send nothing to the store, open no transaction and leave the table alone.
C7_MalformedURLRejected ==
    [][\A k \in SeqKites, u \in MalformedURLs :
          (/\ ret'.id = k.id
           /\ \/ Add(k, u)
              \/ Update(k, u)
              \/ \E p \in Procs : UpsertBegin(p, k, u))
              => /\ ret'.err # NoErr
                 /\ ret'.sent = 0
                 /\ table' = table
                 /\ pc' = pc /\ tx' = tx]_vars

\* C7 happens: a call was rejected for its URL while a row of its id is stored
C7_Witness ==
    /\ ret.step = "parse"
    /\ ret.op \in {"Add", "Upsert", "Update"}
    /\ RowsOf(table, ret.id) # {}

\* C8: Update with a valid URL for an id without a row, when the store runs
\* the statement, returns nil and leaves the table as it was.
C8_UpdateNeverCreates ==
    [][\A k \in SeqKites, u \in ValidURLs :
          (/\ ret'.op = "Update" /\ ret'.id = k.id /\ ret'.cause # StoreError
           /\ RowsOf(table, k.id) = {}
           /\ Update(k, u))
              => /\ ret'.err = NoErr
                 /\ table' = table]_vars

\* C8 happens: an Update of an id without a row returned nil beside a row of
\* another id
C8_Witness ==
    /\ ret.op = "Update"
    /\ ret.err = NoErr
    /\ RowsOf(table, ret.id) = {}
    /\ table # {}

\* C9: Delete, when the store runs the statement, returns nil and removes the
\* rows of its id and no other; without such a row nothing changes, and a
\* second Delete of the id changes nothing more.
C9_DeleteIdempotent ==
    [][\A k \in SeqKites :
          (ret'.op = "Delete" /\ ret'.id = k.id /\ ret'.cause # StoreError /\ Delete(k))
              => /\ ret'.err = NoErr
                 /\ table' = table \ RowsOf(table, k.id)
                 /\ (RowsOf(table, k.id) = {} => table' = table)
                 /\ DeleteRows(table', k.id) = table']_vars

\* C9 happens: a Delete of an id returned nil and a row of another id stays
C9_Witness ==
    /\ ret.op = "Delete"
    /\ ret.err = NoErr
    /\ RowsOf(table, ret.id) = {}
    /\ table # {}

\* C10: Get with a query whose fields are all empty returns the error of
\* the empty query, reads nothing from the store and returns no kite.
C10_EmptyQueryRejected ==
    [][\A q \in Queries :
          ((\A i \in DOMAIN keyOrder : q[keyOrder[i]] = "") /\ Get(q))
              => /\ ret'.err = EmptyQuery
                 /\ ret'.sent = 0
                 /\ ret'.rows = <<>>]_vars

\* C10 happens: the empty query was rejected while rows are stored
C10_Witness ==
    /\ ret.op = "Get"
    /\ ret.step = "selectQuery"
    /\ ret.err = EmptyQuery
    /\ table # {}

\* the stored row r equals the query q in every field of q that is not empty
Matches(r, q) ==
    /\ q.username = "" \/ r.username = q.username
    /\ q.environment = "" \/ r.environment = q.environment
    /\ q.name = "" \/ r.kitename = q.name
    /\ q.version = "" \/ r.version = q.version
    /\ q.region = "" \/ r.region = q.region
    /\ q.hostname = "" \/ r.hostname = q.hostname
    /\ q.id = "" \/ r.id = q.id

\* the kites of a returned list
Returned(rows) == {rows[i] : i \in DOMAIN rows}

\* the version of the query is a version constraint, not a version
IsRange(q) == q.version # "" /\ NewVersion(q.version) = <<>>

Namespace(T, q) ==
    {r \in T : /\ q.username = "" \/ r.username = q.username
               /\ q.environment = "" \/ r.environment = q.environment
               /\ q.name = "" \/ r.kitename = q.name}

\* region, hostname and id of row r match what the query keeps after its
\* version: the query's fields up to its last non-empty one
MatchesSuffix(r, q) ==
    IF q.id # "" THEN r.region = q.region /\ r.hostname = q.hostname /\ r.id = q.id
    ELSE IF q.hostname # "" THEN r.region = q.region /\ r.hostname = q.hostname
    ELSE q.region = "" \/ r.region = q.region

\* the rows of the query's namespace that its range and its suffix select
InRange(T, q) ==
    {r \in Namespace(T, q) : /\ Check(NewConstraint(q.version), NewVersion(r.version))
                             /\ MatchesSuffix(r, q)}

\* C12: a Get with a version range that finds more than one row under the
\* username, environment and name of the query returns exactly the rows whose
\* version satisfies the range and whose region, hostname and id match the
\* suffix of the query.
C12_RangeFiltersRows ==
    [][\A q \in Queries :
          (ret'.op = "Get" /\ ret'.query = q /\ ret'.err = NoErr /\ IsRange(q)
             /\ Cardinality(Namespace(table, q)) > 1 /\ Get(q))
              => /\ Returned(ret'.rows) = {ToKite(r) : r \in InRange(table, q)}
                 /\ Len(ret'.rows) = Cardinality(InRange(table, q))]_vars

\* C12 happens: versions 1.0.0, 1.2.0 and 2.0.0 of alice's kite are stored and
\* the range >= 1.0.0, < 2.0.0 returns the kites of 1.0.0 and 1.2.0
C12_Witness ==
    /\ ret.op = "Get" /\ ret.query = QueryRange /\ ret.err = NoErr
    /\ {r.version : r \in Namespace(table, QueryRange)} = {"1.0.0", "1.2.0", "2.0.0"}
    /\ Len(ret.rows) = 2
    /\ {k.version : k \in Returned(ret.rows)} = {"1.0.0", "1.2.0"}

\* the rows the statement of Get reads: the matching rows, and with a range
\* the rows of the namespace
ReadOf(T, q) == IF IsRange(q) THEN Namespace(T, q) ELSE {r \in T : Matches(r, q)}

\* C13: when the read of Get returns exactly one row, Get returns that row as
\* it is, whether or not it satisfies the range and the suffix of the query.
C13_SingleRowReturnedAsIs ==
    [][\A q \in Queries :
          (ret'.op = "Get" /\ ret'.query = q /\ ret'.err = NoErr
             /\ Cardinality(ReadOf(table, q)) = 1 /\ Get(q))
              => \E r \in ReadOf(table, q) : ret'.rows = <<ToKite(r)>>]_vars

\* C13 happens: only version 1.0.0 in region eu is stored under the name, and
\* the query for >= 2.0.0 in region us returns it
C13_Witness ==
    /\ ret.op = "Get" /\ ret.query = QueryRangeHigh /\ ret.err = NoErr
    /\ Namespace(table, QueryRangeHigh) # {}
    /\ InRange(table, QueryRangeHigh) = {}
    /\ \E u \in ValidURLs : ret.rows = <<KiteA @@ [url |-> u]>>

\* C20: a Get whose version is a valid range and whose username, environment
\* and name are empty fails with the error of the empty query and sends no
\* statement to the store, whatever its region, hostname and id.
C20_RangeWithoutNameRejected ==
    [][\A q \in Queries :
          (ret'.op = "Get" /\ ret'.query = q /\ IsRange(q)
             /\ NewConstraint(q.version) # {}
             /\ q.username = "" /\ q.environment = "" /\ q.name = "" /\ Get(q))
              => /\ ret'.err = EmptyQuery
                 /\ ret'.sent = 0
                 /\ ret'.rows = <<>>]_vars

\* C20 happens: the query for >= 2.0.0 in region us is rejected while a kite
\* of that version and region is stored
C20_Witness ==
    /\ ret.op = "Get" /\ ret.query = QueryRangeOnly /\ ret.err = EmptyQuery
    /\ ret.query.region # ""
    /\ \E r \in table : r.version = "2.0.0" /\ r.region = "us"

\* the seconds since row r was last updated
Age(r) == now - r.updated_at

\* a sweep of the expiry age returns without error in this step
Swept ==
    ret'.op = "CleanExpiredRows" /\ ret'.err = NoErr /\ CleanExpiredRows(ExpireSecs)

C15_SweepRemovesRowsOfExpiryAge ==
    [][Swept => \A r \in table : Age(r) >= ExpireSecs => r \notin table']_vars

\* this step refreshes the stored row of KiteA2's id: an Update that succeeds,
\* or an Upsert that commits after its UPDATE affected the row
Refreshes ==
    /\ RowsOf(table, KiteA2.id) # {}
    /\ ret'.id = KiteA2.id /\ ret'.cause = NoErr
    /\ \/ ret'.op = "Update" /\ \E u \in ValidURLs : Update(KiteA2, u)
       \/ ret'.op = "Upsert" /\ pc["p1"] = "begun" /\ UpsertUpdate("p1")

\* C19: a refresh changes only the url and updated_at of the row of its id:
\* created_at and the identity columns keep their stored values although the
\* call passes another identity, and the rows of other ids are unchanged.
C19_RefreshKeepsIdentity ==
    [][Refreshes =>
          /\ \A r \in table : r.id # KiteA2.id => r \in table'
          /\ \A r \in table' : r.id # KiteA2.id => r \in table
          /\ Cardinality(RowsOf(table', KiteA2.id)) = 1
          /\ \A r \in RowsOf(table, KiteA2.id) : \A x \in RowsOf(table', KiteA2.id) :
                x = [r EXCEPT !.url = x.url, !.updated_at = x.updated_at]]_vars

\* C19 happens: the row stored for KiteA has been refreshed by an Upsert of
\* KiteA2 at a later time, next to the row of another id
C19_Witness ==
    /\ ret.op = "Upsert" /\ ret.id = KiteA2.id /\ ret.cause = NoErr
    /\ RowsOf(table, KiteB.id) # {}
    /\ \E r \in RowsOf(table, KiteA2.id) :
          /\ r.version = KiteA.version /\ r.hostname = KiteA.hostname
          /\ r.version # KiteA2.version /\ r.hostname # KiteA2.hostname
          /\ r.updated_at > r.created_at

\* C16: a stored row that is no longer refreshed is removed in the end, when
\* the ticker keeps firing and the sweeper's DELETE does not fail forever.
\* (Rows are written only while the clock runs, so every row stops being
\* refreshed.)
C16_UnrefreshedRowIsRemoved ==
    \A k \in Kites : (RowsOf(table, k.id) # {}) ~> (RowsOf(table, k.id) = {})

\* C16 happens: after a failed sweep, a sweep of the loop has removed the
\* rows that had been stored
C16_Witness ==
    /\ cleaner.warned
    /\ ret.op = "CleanExpiredRows" /\ ret.err = NoErr /\ ret.count = 2
    /\ cleaner.logged = "info" /\ cleaner.pc = "loop"
    /\ now = CleanerMaxTime
    /\ table = {}

\* C17: RunCleaner sweeps once at its start without a tick, then once for
\* every tick it receives, forever; a sweep that fails logs a warning, leaves
\* the loop running, and the next tick is received by a sweep again.
C17_SweeperNeverStops ==
    /\ [][(cleaner.pc = "first" /\ cleaner' # cleaner)
             => ~cleaner.tick /\ RunCleanerFirst]_vars
    /\ (cleaner.pc = "first") ~> (cleaner.pc = "loop")
    /\ [][cleaner.pc = "loop" => cleaner'.pc = "loop"]_vars
    /\ [][(cleaner.tick /\ ~cleaner'.tick) => RunCleanerTick]_vars
    /\ [][(ret'.op = "CleanExpiredRows" /\ ret'.err # NoErr
             /\ (RunCleanerFirst \/ RunCleanerTick))
             => /\ cleaner'.logged = "warning"
                /\ cleaner'.pc = "loop"
                /\ table' = table]_vars
    /\ cleaner.tick ~> ~cleaner.tick
    /\ (cleaner.warned /\ cleaner.tick) ~> (cleaner.warned /\ ~cleaner.tick)

\* C17 happens: a sweep has failed with a warning, and a later tick has been
\* received by a sweep that removed a row
C17_Witness ==
    /\ cleaner.warned /\ cleaner.logged = "info" /\ cleaner.pc = "loop"
    /\ ~cleaner.tick
    /\ ret.op = "CleanExpiredRows" /\ ret.err = NoErr

\* every handler has handled the signals of its channel
Handled == \A k \in LoggedKites : sigc[k] = 0 /\ handler[k] = "range"

\* C18: once the handlers have handled the signals sent, every kite with a
\* handler logs at DEBUG after an odd number of SIGUSR2 and at its old level
\* after an even number, also with several kites in the process.
C18_LevelFollowsSignalCount ==
    Handled => \A k \in LoggedKites :
                  logLevel[k] = IF signals % 2 = 1 THEN DEBUG ELSE getLogLevel

====
